---- MODULE Spec2Model ----
(***************************************************************************)
(* Model of stock_price_predictor.py: the interactive loop of main() and   *)
(* the pipeline stages it drives (get_stock_data, preprocess_data,         *)
(* create_features, calculate_rsi, train_model, predict_future_prices).    *)
(*                                                                         *)
(* Text is a sequence of one-character strings, a date is <<y, m, d>>, a   *)
(* floating-point value is a record: NaN, +Inf or an exact fraction n/d    *)
(* in lowest terms (rounding is not modelled; division by zero follows     *)
(* IEEE-754 as numpy/pandas apply it).  A price series is the Close        *)
(* column as a sequence of positive integers; the other provider columns   *)
(* (Open, High, Low, Volume) are complete and carry no information the     *)
(* control flow depends on.                                                *)
(***************************************************************************)
EXTENDS Integers, Sequences, FiniteSets, TLC

\* ------------------------------------------------------------------ bounds
MaxIter == 2        \* iterations of the while loop explored
MaxDays == 5        \* largest N of an end-date input "+N"
MaxLen == 3         \* longest price series enumerated step by step
MaxExtra == 3       \* rows beyond the 200-row window in the long series
MaxDelta == 1       \* predicted price ranges over last_close -MaxDelta .. +MaxDelta
BasePrice == 100    \* first close of an enumerated series

\* ------------------------------------------------------- program constants
SmaShort == 50      \* rolling(window=50)
SmaLong == 200      \* rolling(window=200)
RsiWindow == 14     \* calculate_rsi(..., window=14)
MaxLag == 5         \* for lag in range(1, 6)
RollWindow == 10    \* rolling(window=10) mean and std
MinSamples == 2     \* the samples train_model needs
MaxYear == 9999     \* datetime.MAXYEAR: the last year a datetime can hold

\* Python's None.  Every value that may be None is a record with a kind k.
None == [k |-> "None"]

Fitted == [k |-> "fitted"]

\* ------------------------------------------------------------ text, numbers
Digits == <<"0", "1", "2", "3", "4", "5", "6", "7", "8", "9">>

IsDigit(c) == \E i \in 1..10 : Digits[i] = c

DigitVal(c) == (CHOOSE i \in 1..10 : Digits[i] = c) - 1

AllDigits(s) == Len(s) > 0 /\ \A i \in 1..Len(s) : IsDigit(s[i])

RECURSIVE DigitsVal(_)
DigitsVal(s) ==
    IF s = <<>> THEN 0
    ELSE 10 * DigitsVal(SubSeq(s, 1, Len(s) - 1)) + DigitVal(s[Len(s)])

\* int(text): an optional sign, then decimal digits; anything else raises
\* ValueError.
ParseInt(s) ==
    LET signed == Len(s) > 0 /\ s[1] \in {"+", "-"}
        body == IF signed THEN Tail(s) ELSE s
    IN  IF ~AllDigits(body) THEN [ok |-> FALSE, val |-> 0]
        ELSE [ok |-> TRUE,
              val |-> IF signed /\ s[1] = "-" THEN 0 - DigitsVal(body)
                      ELSE DigitsVal(body)]

RECURSIVE NatText(_)
NatText(n) ==
    IF n < 10 THEN <<Digits[n + 1]>>
    ELSE NatText(n \div 10) \o <<Digits[(n % 10) + 1]>>

RECURSIVE Pad(_, _)
Pad(s, width) == IF Len(s) >= width THEN s ELSE Pad(<<"0">> \o s, width)

\* "+" in end_date
HasPlus(s) == \E i \in 1..Len(s) : s[i] = "+"

\* ------------------------------------------------------------------- dates
IsLeap(y) == (y % 4 = 0) /\ ((y % 100 # 0) \/ (y % 400 = 0))

DaysInMonth(y, m) ==
    IF m = 2 THEN (IF IsLeap(y) THEN 29 ELSE 28)
    ELSE IF m \in {4, 6, 9, 11} THEN 30 ELSE 31

ValidDate(d) ==
    /\ d[1] \in 1..MaxYear
    /\ d[2] \in 1..12
    /\ d[3] \in 1..DaysInMonth(d[1], d[2])

\* The positions of "-" in a text.
Dashes(s) == {i \in 1..Len(s) : s[i] = "-"}

\* datetime.strptime(text, "%Y-%m-%d"): four year digits, one or two month
\* digits, one or two day digits, naming a real calendar date; ValueError
\* otherwise.
Strptime(s) ==
    LET ds == Dashes(s)
        lo == CHOOSE i \in ds : \A j \in ds : i <= j
        hi == CHOOSE i \in ds : \A j \in ds : i >= j
        fy == SubSeq(s, 1, lo - 1)
        fm == SubSeq(s, lo + 1, hi - 1)
        fd == SubSeq(s, hi + 1, Len(s))
        shaped == /\ Cardinality(ds) = 2
                  /\ AllDigits(fy) /\ Len(fy) = 4
                  /\ AllDigits(fm) /\ Len(fm) \in 1..2
                  /\ AllDigits(fd) /\ Len(fd) \in 1..2
        date == <<DigitsVal(fy), DigitsVal(fm), DigitsVal(fd)>>
    IN  IF shaped /\ ValidDate(date) THEN [ok |-> TRUE, date |-> date]
        ELSE [ok |-> FALSE, date |-> <<0, 0, 0>>]

\* date.strftime("%Y-%m-%d")
Strftime(d) ==
    Pad(NatText(d[1]), 4) \o <<"-">> \o Pad(NatText(d[2]), 2)
        \o <<"-">> \o Pad(NatText(d[3]), 2)

\* A day after 31 December that stays in the same year.
NextDaySameYear(d) ==
    IF d[3] < DaysInMonth(d[1], d[2]) THEN <<d[1], d[2], d[3] + 1>>
    ELSE IF d[2] < 12 THEN <<d[1], d[2] + 1, 1>>
    ELSE <<d[1], 1, 1>>

NextDay(d) ==
    IF d[3] < DaysInMonth(d[1], d[2]) THEN <<d[1], d[2], d[3] + 1>>
    ELSE IF d[2] < 12 THEN <<d[1], d[2] + 1, 1>>
    ELSE <<d[1] + 1, 1, 1>>

PrevDay(d) ==
    IF d[3] > 1 THEN <<d[1], d[2], d[3] - 1>>
    ELSE IF d[2] > 1 THEN <<d[1], d[2] - 1, DaysInMonth(d[1], d[2] - 1)>>
    ELSE <<d[1] - 1, 12, 31>>

\* date + timedelta(days=n); a result outside years 1..9999 raises
\* OverflowError.
RECURSIVE AddDays(_, _)
AddDays(d, n) ==
    IF ~ValidDate(d) THEN [ok |-> FALSE, date |-> <<0, 0, 0>>]
    ELSE IF n = 0 THEN [ok |-> TRUE, date |-> d]
    ELSE IF n > 0 THEN AddDays(NextDay(d), n - 1)
    ELSE AddDays(PrevDay(d), n + 1)

\* Lines 166-171 of main: the end date the pipeline is given.  ok = FALSE is
\* an exception (ValueError from int or strptime, OverflowError from the
\* addition) that reaches main's handler.
ResolveEndDate(start, end) ==
    IF ~HasPlus(end) THEN [ok |-> TRUE, text |-> end]
    ELSE LET days == ParseInt(Tail(end))
             base == Strptime(start)
             sum == AddDays(base.date, days.val)
         IN  IF days.ok /\ base.ok /\ sum.ok
             THEN [ok |-> TRUE, text |-> Strftime(sum.date)]
             ELSE [ok |-> FALSE, text |-> end]

\* ------------------------------------------------------------------ floats
NaN == [k |-> "nan", n |-> 0, d |-> 1]

Inf(sign) == [k |-> "inf", n |-> sign, d |-> 1]

Abs(x) == IF x < 0 THEN 0 - x ELSE x

Sign(x) == IF x > 0 THEN 1 ELSE IF x < 0 THEN 0 - 1 ELSE 0

RECURSIVE GCD(_, _)
GCD(a, b) == IF b = 0 THEN a ELSE GCD(b, a % b)

\* The fraction n/d (d # 0) in lowest terms with a positive denominator.
Num(n, d) ==
    LET g == GCD(Abs(n), Abs(d))
        s == IF d < 0 THEN 0 - 1 ELSE 1
    IN  [k |-> "num", n |-> (s * n) \div g, d |-> Abs(d) \div g]

FromInt(x) == [k |-> "num", n |-> x, d |-> 1]

IsNaN(a) == a.k = "nan"

\* a / b on floating-point series: x/0 is an infinity for x # 0 and NaN for
\* x = 0; no exception is raised.
FDiv(a, b) ==
    IF IsNaN(a) \/ IsNaN(b) THEN NaN
    ELSE IF a.k = "inf"
         THEN (IF b.k = "inf" THEN NaN
               ELSE Inf(a.n * (IF b.n < 0 THEN 0 - 1 ELSE 1)))
    ELSE IF b.k = "inf" THEN FromInt(0)
    ELSE IF b.n = 0 THEN (IF a.n = 0 THEN NaN ELSE Inf(Sign(a.n)))
    ELSE Num(a.n * b.d, a.d * b.n)

FNeg(a) == IF IsNaN(a) THEN NaN ELSE [a EXCEPT !.n = 0 - a.n]

FAdd(a, b) ==
    IF IsNaN(a) \/ IsNaN(b) THEN NaN
    ELSE IF a.k = "inf"
         THEN (IF b.k = "inf" /\ b.n # a.n THEN NaN ELSE a)
    ELSE IF b.k = "inf" THEN b
    ELSE Num(a.n * b.d + b.n * a.d, a.d * b.d)

FSub(a, b) == FAdd(a, FNeg(b))

FMul(a, b) ==
    IF IsNaN(a) \/ IsNaN(b) THEN NaN
    ELSE IF a.k = "inf" \/ b.k = "inf"
         THEN (IF a.n = 0 \/ b.n = 0 THEN NaN ELSE Inf(Sign(a.n) * Sign(b.n)))
    ELSE Num(a.n * b.n, a.d * b.d)

\* a > b; every comparison with NaN is False.
FGreater(a, b) ==
    IF IsNaN(a) \/ IsNaN(b) THEN FALSE
    ELSE IF a.k = "inf" THEN a.n > 0 /\ ~(b.k = "inf" /\ b.n > 0)
    ELSE IF b.k = "inf" THEN b.n < 0
    ELSE a.n * b.d > b.n * a.d

FAbs(a) == IF IsNaN(a) THEN NaN ELSE [a EXCEPT !.n = Abs(a.n)]

\* -------------------------------------------------------------- calculate_rsi
RECURSIVE SumRange(_, _, _)
SumRange(s, lo, hi) == IF lo > hi THEN 0 ELSE s[hi] + SumRange(s, lo, hi - 1)

\* diff = data.diff(1); gain = diff.where(diff > 0, 0).  The first row's
\* diff is NaN, for which the condition is False, so its gain is 0.
Gain(data) ==
    [i \in 1..Len(data) |->
        IF i > 1 /\ data[i] - data[i - 1] > 0 THEN data[i] - data[i - 1] ELSE 0]

\* loss = -diff.where(diff < 0, 0)
Loss(data) ==
    [i \in 1..Len(data) |->
        IF i > 1 /\ data[i] - data[i - 1] < 0 THEN 0 - (data[i] - data[i - 1])
        ELSE 0]

\* s.rolling(window=window, min_periods=1).mean() of a complete series: the
\* mean of the rows of the trailing window that exist.
RollingMean(s, window) ==
    [i \in 1..Len(s) |->
        LET lo == IF i - window + 1 > 1 THEN i - window + 1 ELSE 1
        IN  Num(SumRange(s, lo, i), i - lo + 1)]

\* A division guarded against a zero average loss.
RelativeStrengthGuarded(avg_gain, avg_loss) ==
    IF avg_loss.n = 0 THEN NaN ELSE FDiv(avg_gain, avg_loss)

\* rs = avg_gain / avg_loss
RelativeStrength(avg_gain, avg_loss) == FDiv(avg_gain, avg_loss)

\* rsi = 100 - (100 / (1 + rs))
RsiOf(rs) == FSub(FromInt(100), FDiv(FromInt(100), FAdd(FromInt(1), rs)))

\* avg_gain = gain.rolling(window=window, min_periods=1).mean()
AvgGain(data, window) == RollingMean(Gain(data), window)

\* avg_loss = loss.rolling(window=window, min_periods=1).mean()
AvgLoss(data, window) == RollingMean(Loss(data), window)

CalculateRsi(data, window) ==
    LET avg_gain == AvgGain(data, window)
        avg_loss == AvgLoss(data, window)
    IN  [i \in 1..Len(data) |->
            RsiOf(RelativeStrength(avg_gain[i], avg_loss[i]))]

\* ------------------------------------------------------------ create_features
\* A rolling window that needs one row more than its width.
RollingDefinedOffByOne(window, i) == i > window

\* Whether a column is defined (not NaN) at row i (1-based) of a complete
\* n-row series.  rolling(window=w) needs w rows; shift(k) needs k earlier
\* rows; pct_change needs one; shift(-1) needs a later row; ewm(adjust=False)
\* is defined at every row.
RollingDefined(window, i) == i >= window

ShiftDefined(lag, i) == i > lag

PctChangeDefined(i) == i > 1

FutureDefined(n, i) == i < n

\* A dropna that does not look at the RSI column.
RowCompleteIgnoringRsi(n, rsi, i) ==
    /\ i >= SmaLong
    /\ i < n

\* The rows stock_data.dropna() keeps: those where every column is defined.
RowComplete(n, rsi, i) ==
    /\ RollingDefined(SmaShort, i)                       \* SMA_50
    /\ RollingDefined(SmaLong, i)                        \* SMA_200
    /\ ~IsNaN(rsi[i])                                    \* RSI
    /\ PctChangeDefined(i)                               \* Daily_Return
    /\ \A lag \in 1..MaxLag :
          /\ ShiftDefined(lag, i)                        \* Close_Lag_k
          /\ PctChangeDefined(i - lag)                   \* Daily_Return_Lag_k
    /\ RollingDefined(RollWindow, i)                     \* Rolling_Mean/Std_Close
    /\ FutureDefined(n, i)                               \* Future_Close

KeptRows(n, rsi) == {i \in 1..n : RowComplete(n, rsi, i)}

\* The j-th smallest element of a set of row numbers.
Nth(rows, j) == CHOOSE i \in rows : Cardinality({x \in rows : x <= i}) = j

\* create_features: the RSI column it adds to the caller's frame in place,
\* and the table it returns (the surviving rows, in order).
CreateFeatures(close) ==
    LET rsi == CalculateRsi(close, RsiWindow)
        kept == KeptRows(Len(close), rsi)
    IN  [RSI |-> rsi,
         table |-> [k |-> "table", rows |-> [j \in 1..Cardinality(kept) |->
                      [row |-> Nth(kept, j),
                       RSI |-> rsi[Nth(kept, j)],
                       Future_Close |-> close[Nth(kept, j) + 1]]]]]

\* ---------------------------------------------------------------- train_model
\* train_test_split(test_size=0.2): ceil(0.2 n) test rows, the rest train
\* rows; it raises when the train set would be empty.
SplitSizes(n) == [test |-> (n + 4) \div 5, train |-> n - ((n + 4) \div 5)]

\* The sample check one too low.
TooFewSamplesOffByOne(n) == n < MinSamples - 1

\* len(features) < 2
TooFewSamples(n) == n < MinSamples

\* Where train_model's body may raise after the sample check (the except
\* clause turns every exception into (None, None)).
TrainFailures(n) ==
    IF SplitSizes(n).train = 0 THEN {"split"} ELSE {"none", "fit", "evaluate"}

TrainOrder == <<"split", "scale", "fit", "evaluate">>

\* The steps train_model entered, up to and including the one that raised.
StepsEntered(failAt) ==
    IF failAt = "none" THEN TrainOrder
    ELSE SubSeq(TrainOrder, 1, CHOOSE i \in 1..Len(TrainOrder) : TrainOrder[i] = failAt)

\* train_model(features, target): what it returns and the steps it entered.
TrainResult(n, failAt) ==
    IF TooFewSamples(n)
    THEN [model |-> None, scaler |-> None, steps |-> <<>>]
    ELSE IF failAt # "none"
    THEN [model |-> None, scaler |-> None, steps |-> StepsEntered(failAt)]
    ELSE [model |-> Fitted, scaler |-> Fitted, steps |-> StepsEntered(failAt)]

\* -------------------------------------------------------- predict_future_prices
\* A predict_future_prices that answers with a value although it raised.
PredictResultStale(raised, value) == value

\* predict_future_prices returns the prediction, or None when scaling or
\* inference raised.
PredictResult(raised, value) == IF raised THEN None ELSE value

\* What the network may answer for one feature row: a price near the last
\* close, or NaN.
Predictions(last_close) ==
    {FromInt(last_close + delta) : delta \in (0 - MaxDelta)..MaxDelta} \cup {NaN}

\* ------------------------------------------------------------------- main
\* change_percentage = ((future_price - last_close) / last_close) * 100
ChangePercentage(future_price, last_close) ==
    FMul(FDiv(FSub(future_price, FromInt(last_close)), FromInt(last_close)),
         FromInt(100))

\* The direction test with >= for >.
IsUpOrEqual(future_price, last_close) ==
    ~IsNaN(future_price) /\ ~FGreater(FromInt(last_close), future_price)

\* if future_price > last_close
IsUp(future_price, last_close) == FGreater(future_price, FromInt(last_close))

\* The two lines main prints for a forecast.
ForecastLines(future_price, last_close) ==
    LET up == IsUp(future_price, last_close)
        color == IF up THEN "GREEN" ELSE "RED"
    IN  << [color |-> color, line |-> "price", value |-> future_price,
            direction |-> "-"],
           [color |-> color, line |-> "move",
            value |-> FAbs(ChangePercentage(future_price, last_close)),
            direction |-> IF up THEN "up" ELSE "down"] >>

\* input(...).lower() of the answers the model offers.
Lower(a) == IF a = "YES" THEN "yes" ELSE IF a = "Y" THEN "y" ELSE a

\* The comparison of the retry answer inverted.
RetryAfterStageInverted(answer) == Lower(answer) # "yes"

\* retry != "yes" after a stage returned None; retry != "y" in the handler
\* of an unexpected exception.
RetryAfterStage(answer) == Lower(answer) = "yes"

RetryAfterException(answer) == Lower(answer) = "y"

\* ------------------------------------------------------------------ inputs
StartDates == {<<2023, 1, 1>>, <<2023, 12, 30>>, <<2024, 2, 27>>, <<MaxYear, 12, 30>>}

\* The start dates typed, and one that names no calendar date (30 February).
StartInputs == {Strftime(d) : d \in StartDates} \cup {Strftime(<<2023, 2, 30>>)}

RelativeEnd(n) == <<"+">> \o NatText(n)

EndInputs ==
    {RelativeEnd(n) : n \in 0..MaxDays}
        \cup {Strftime(<<2024, 6, 1>>), <<"+", "x">>, <<"1", "+", "2">>}

Answers == {"yes", "y", "no", "YES"}

\* Days since 0001-01-01 (date.toordinal), in closed form.
DaysBeforeYear(y) == (y - 1) * 365 + (y - 1) \div 4 - (y - 1) \div 100 + (y - 1) \div 400

RECURSIVE DaysBeforeMonth(_, _)
DaysBeforeMonth(y, m) ==
    IF m = 1 THEN 0 ELSE DaysBeforeMonth(y, m - 1) + DaysInMonth(y, m - 1)

Ordinal(d) == DaysBeforeYear(d[1]) + DaysBeforeMonth(d[1], d[2]) + d[3]

RECURSIVE WalksOfLen(_)
WalksOfLen(n) ==
    IF n = 0 THEN {<<>>}
    ELSE IF n = 1 THEN {<<BasePrice>>}
    ELSE {Append(s, s[Len(s)] + step) : s \in WalksOfLen(n - 1), step \in {0 - 1, 0, 1}}

\* Every series of at most MaxLen closes that starts at BasePrice and moves
\* by -1, 0 or +1 a day.
ShortSeries == UNION {WalksOfLen(n) : n \in 0..MaxLen}

Shapes == {"up", "down", "flat", "zigzag", "plateau"}

Min(a, b) == IF a < b THEN a ELSE b

ShapePrice(shape, n, i) ==
    CASE shape = "up" -> BasePrice + i
      [] shape = "down" -> BasePrice + n - i
      [] shape = "flat" -> BasePrice
      [] shape = "zigzag" -> BasePrice + (i \div 2) + 2 * (i % 2)
      [] shape = "plateau" -> BasePrice + Min(i, SmaLong - RsiWindow + 1)

\* Series around the 200-row window: rising, falling, constant, alternating,
\* and rising then constant over the last rows.
LongSeries ==
    {[i \in 1..n |-> ShapePrice(shape, n, i)] :
        n \in (SmaLong - 1)..(SmaLong + MaxExtra), shape \in Shapes}

\* The provider returns one row per trading day in [start, end): at most
\* end - start rows, and nothing for a range it cannot read.
RangeDays(start, end) ==
    LET s == Strptime(start)
        e == Strptime(end)
    IN  IF s.ok /\ e.ok /\ Ordinal(e.date) > Ordinal(s.date)
        THEN Ordinal(e.date) - Ordinal(s.date) ELSE 0

Readable(start, end) == Strptime(start).ok /\ Strptime(end).ok

Downloads(start, end) ==
    IF ~Readable(start, end) THEN {}
    ELSE {s \in ShortSeries \cup LongSeries : Len(s) <= RangeDays(start, end)}

\* ------------------------------------------------------------------- state
VARIABLES
    pc,            \* where main is
    iter,          \* the iteration of the while loop, from 1
    start_date,    \* as typed
    end_date,      \* as typed, then as resolved
    end_input,     \* the end date as typed (kept for the record)
    stock_data,    \* None, or the frame: Close, Date (added by preprocess), RSI
    features,      \* None, or the table create_features returned
    model,         \* None or Fitted
    scaler,        \* None or Fitted
    trainSteps,    \* the steps train_model entered in this iteration
    future_price,  \* None or the prediction
    last_close,    \* None or the last row's close
    change_percentage, \* None or the relative change, in percent
    retry,         \* None or the lower-cased answer to the retry question
    printed,       \* the forecast lines printed
    stagesDone,    \* the stages that succeeded in this iteration
    failure,       \* what failed in this iteration
    prompted,      \* whether the retry question was asked in this iteration
    decisions      \* every answered retry question: kind, answer, outcome

vars == <<pc, iter, start_date, end_date, end_input, stock_data, features,
          model, scaler, trainSteps, future_price, last_close,
          change_percentage, retry, printed, stagesDone, failure, prompted,
          decisions>>

Stages == {"acquire", "preprocess", "features", "train", "predict"}

\* The locals of one iteration; each is assigned before it is read, so a new
\* iteration starts from the same values as the first.
FreshLocals ==
    /\ start_date' = <<>>
    /\ end_date' = <<>>
    /\ end_input' = <<>>
    /\ stock_data' = None
    /\ features' = None
    /\ model' = None
    /\ scaler' = None
    /\ trainSteps' = <<>>
    /\ future_price' = None
    /\ last_close' = None
    /\ change_percentage' = None
    /\ stagesDone' = {}
    /\ failure' = {}
    /\ prompted' = FALSE

Init ==
    /\ pc = "input"
    /\ iter = 1
    /\ start_date = <<>>
    /\ end_date = <<>>
    /\ end_input = <<>>
    /\ stock_data = None
    /\ features = None
    /\ model = None
    /\ scaler = None
    /\ trainSteps = <<>>
    /\ future_price = None
    /\ last_close = None
    /\ change_percentage = None
    /\ retry = None
    /\ printed = <<>>
    /\ stagesDone = {}
    /\ failure = {}
    /\ prompted = FALSE
    /\ decisions = {}

\* Lines 158-173: read the ticker and the dates, resolve a "+N" end date.
ReadInputs ==
    /\ pc = "input"
    /\ \E start \in StartInputs, end \in EndInputs :
          LET r == ResolveEndDate(start, end)
          IN  /\ start_date' = start
              /\ end_input' = end
              /\ end_date' = r.text
              /\ pc' = IF r.ok THEN "fetch" ELSE "except"
              /\ failure' = IF r.ok THEN failure ELSE failure \cup {"exception"}
    /\ UNCHANGED <<iter, stock_data, features, model, scaler, trainSteps,
                   future_price, last_close, change_percentage, retry,
                   printed, stagesDone, prompted, decisions>>

\* Lines 175-178 and get_stock_data: the provider's rows, or None when the
\* download raised and a handler caught it, or an exception that leaves
\* get_stock_data (the first except clause names yf.TickerError, an attribute
\* lookup that itself raises where the library has no such name).
GetStockData ==
    /\ pc = "fetch"
    /\ \/ \E close \in Downloads(start_date, end_date) :
             /\ stock_data' = [k |-> "frame", Close |-> close, Date |-> FALSE,
                             RSI |-> <<>>]
             /\ stagesDone' = stagesDone \cup {"acquire"}
             /\ pc' = "preprocess"
             /\ UNCHANGED failure
       \/ /\ stock_data' = None
          /\ failure' = failure \cup {"acquire"}
          /\ pc' = "ask"
          /\ UNCHANGED stagesDone
       \/ /\ failure' = failure \cup {"acquire", "exception"}
          /\ pc' = "except"
          /\ UNCHANGED <<stock_data, stagesDone>>
    /\ UNCHANGED <<iter, start_date, end_date, end_input, features, model,
                   scaler, trainSteps, future_price, last_close,
                   change_percentage, retry, printed, prompted, decisions>>

\* Lines 185-188 and preprocess_data: the index becomes the Date column; None
\* when that raised.
PreprocessData ==
    /\ pc = "preprocess"
    /\ \/ /\ stock_data' = [stock_data EXCEPT !.Date = TRUE]
          /\ stagesDone' = stagesDone \cup {"preprocess"}
          /\ pc' = "features"
          /\ UNCHANGED failure
       \/ /\ stock_data' = None
          /\ failure' = failure \cup {"preprocess"}
          /\ pc' = "ask"
          /\ UNCHANGED stagesDone
    /\ UNCHANGED <<iter, start_date, end_date, end_input, features, model,
                   scaler, trainSteps, future_price, last_close,
                   change_percentage, retry, printed, prompted, decisions>>

\* Lines 195-198, 205-216 and create_features: the indicator columns are
\* added to the frame main holds, the complete rows are returned; None when
\* a column operation raised.
MakeFeatures ==
    /\ pc = "features"
    /\ \/ LET f == CreateFeatures(stock_data.Close)
          IN  /\ stock_data' = [stock_data EXCEPT !.RSI = f.RSI]
              /\ features' = f.table
              /\ stagesDone' = stagesDone \cup {"features"}
              /\ pc' = "train"
              /\ UNCHANGED failure
       \/ /\ features' = None
          /\ failure' = failure \cup {"features"}
          /\ pc' = "ask"
          /\ UNCHANGED <<stock_data, stagesDone>>
    /\ UNCHANGED <<iter, start_date, end_date, end_input, model, scaler,
                   trainSteps, future_price, last_close, change_percentage,
                   retry, printed, prompted, decisions>>

\* Lines 218-219 and train_model.
TrainModel ==
    /\ pc = "train"
    /\ \E failAt \in TrainFailures(Len(features.rows)) :
          LET r == TrainResult(Len(features.rows), failAt)
              ok == r.model # None /\ r.scaler # None
          IN  /\ model' = r.model
              /\ scaler' = r.scaler
              /\ trainSteps' = r.steps
              /\ stagesDone' = IF ok THEN stagesDone \cup {"train"} ELSE stagesDone
              /\ failure' = IF ok THEN failure ELSE failure \cup {"train"}
              /\ pc' = IF ok THEN "predict" ELSE "finish"
    /\ UNCHANGED <<iter, start_date, end_date, end_input, stock_data,
                   features, future_price, last_close, change_percentage,
                   retry, printed, prompted, decisions>>

\* stock_data["Close"].iloc[-1]
LastClose == stock_data.Close[Len(stock_data.Close)]

\* Lines 220-240 and predict_future_prices: the last row's features are
\* scaled and fed to the network; main subscripts the result, which raises
\* TypeError when it is None.
PredictFuturePrice ==
    /\ pc = "predict"
    /\ \E raised \in BOOLEAN, value \in Predictions(LastClose) :
          LET r == PredictResult(raised, value)
          IN  /\ future_price' = r
              /\ last_close' = IF r = None THEN last_close ELSE FromInt(LastClose)
              /\ change_percentage' =
                    IF r = None THEN change_percentage
                    ELSE ChangePercentage(r, LastClose)
              /\ stagesDone' = IF raised THEN stagesDone
                               ELSE stagesDone \cup {"predict"}
              /\ failure' = (IF raised THEN failure \cup {"predict"} ELSE failure)
                               \cup (IF r = None THEN {"exception"} ELSE {})
              /\ pc' = IF r = None THEN "except" ELSE "print"
    /\ UNCHANGED <<iter, start_date, end_date, end_input, stock_data,
                   features, model, scaler, trainSteps, retry, printed,
                   prompted, decisions>>

\* Lines 242-261.
PrintForecast ==
    /\ pc = "print"
    /\ printed' = printed \o ForecastLines(future_price, LastClose)
    /\ pc' = "finish"
    /\ UNCHANGED <<iter, start_date, end_date, end_input, stock_data,
                   features, model, scaler, trainSteps, future_price,
                   last_close, change_percentage, retry, stagesDone, failure,
                   prompted, decisions>>

\* Lines 263-264: "Run completed successfully", break.
Finish ==
    /\ pc = "finish"
    /\ pc' = "done"
    /\ UNCHANGED <<iter, start_date, end_date, end_input, stock_data,
                   features, model, scaler, trainSteps, future_price,
                   last_close, change_percentage, retry, printed, stagesDone,
                   failure, prompted, decisions>>

FailureKind ==
    IF "exception" \in failure THEN "exception"
    ELSE IF "acquire" \in failure THEN "retrieval" ELSE "stage"

\* The loop goes round again (continue) or ends (break).
Decide(again, answer) ==
    /\ retry' = Lower(answer)
    /\ decisions' = decisions \cup
          {[kind |-> FailureKind, answer |-> Lower(answer), retry |-> again]}
    /\ IF again
       THEN /\ iter < MaxIter
            /\ iter' = iter + 1
            /\ pc' = "input"
            /\ FreshLocals
       ELSE /\ pc' = "done"
            /\ prompted' = TRUE
            /\ UNCHANGED <<iter, start_date, end_date, end_input, stock_data,
                           features, model, scaler, trainSteps, future_price,
                           last_close, change_percentage, stagesDone,
                           failure>>
    /\ UNCHANGED printed

\* Lines 179-183, 189-193, 199-203: the question after a stage returned None.
AskAfterStage ==
    /\ pc = "ask"
    /\ \E answer \in Answers : Decide(RetryAfterStage(answer), answer)

\* Lines 266-271: the handler of an exception that reached main.
AskAfterException ==
    /\ pc = "except"
    /\ \E answer \in Answers : Decide(RetryAfterException(answer), answer)

Next ==
    \/ ReadInputs
    \/ GetStockData
    \/ PreprocessData
    \/ MakeFeatures
    \/ TrainModel
    \/ PredictFuturePrice
    \/ PrintForecast
    \/ Finish
    \/ AskAfterStage
    \/ AskAfterException

Spec == Init /\ [][Next]_vars

\* ------------------------------------------------------------------ claims
StageFailed == failure \cap Stages # {}

FeaturesMade == features # None /\ stock_data # None

Rows == Len(stock_data.Close)

TrainRan == "train" \in (failure \cup stagesDone)

\* C1: whenever a pipeline stage fails in an iteration, the retry question is
\* asked before the loop restarts or exits (as stated; a failed train_model
\* ends the run without the question).
C1_PromptAfterEveryStageFailure ==
    (pc = "done" /\ StageFailed) => prompted

\* C2: for a given answer to the retry question the outcome (new iteration or
\* quit) is the same whichever kind of failure preceded it (as stated; the
\* two questions accept different words).
C2_SameOutcomeForSameAnswer ==
    \A a, b \in decisions : a.answer = b.answer => a.retry = b.retry

\* C3: a forecast is printed in an iteration only if acquisition,
\* preprocessing, feature creation, training and prediction all succeeded in
\* it; after a failure nothing of the forecast is printed, and the two
\* forecast lines appear together.
C3_NoPartialResults ==
    /\ Len(printed) \in {0, 2}
    /\ printed # <<>> => (stagesDone = Stages /\ failure = {})

C3_Witness == pc = "finish" /\ Len(printed) = 2 /\ stagesDone = Stages

Affirmative(answer) == answer \in {"yes", "y"}

Asking == pc \in {"ask", "except"}

\* C4: a new iteration begins only right after a failure whose retry question
\* was answered affirmatively; any other answer ends the program; a run
\* without failure ends after exactly one iteration.
C4_RetriesUserInitiated ==
    [][ /\ (pc' = "input" /\ pc # "input") =>
              (Asking /\ failure # {} /\ Affirmative(retry') /\ iter' = iter + 1)
        /\ iter' # iter => (pc' = "input" /\ pc # "input")
        /\ (Asking /\ pc' # pc /\ ~Affirmative(retry')) => pc' = "done"
        /\ (pc' = "done" /\ failure = {} /\ decisions' = {}) =>
              (pc = "finish" /\ iter' = 1)
      ]_vars

C4_Witness == iter = 2 /\ pc = "input" /\ Affirmative(retry)

RsiNaNRows == {i \in SmaLong..(Rows - 1) : IsNaN(stock_data.RSI[i])}

\* C5 as stated: n - 200 - 1 rows for n > 200, none for a shorter series.
C5_RowCountAsStated ==
    FeaturesMade =>
        Len(features.rows) = (IF Rows > SmaLong THEN Rows - SmaLong - 1 ELSE 0)

\* C5: for n > 200 rows the feature table has n - 200 rows, less one for each
\* row with a full 200-row history and a next-day target whose RSI is NaN;
\* for n <= 200 it is empty.
C5_RowCount ==
    FeaturesMade =>
        /\ Rows <= SmaLong => Len(features.rows) = 0
        /\ Rows > SmaLong =>
              Len(features.rows) = Rows - SmaLong - Cardinality(RsiNaNRows)
        /\ \A j \in 1..Len(features.rows) :
              /\ features.rows[j].row \in SmaLong..(Rows - 1)
              /\ j > 1 => features.rows[j - 1].row < features.rows[j].row

C5_Witness ==
    /\ FeaturesMade
    /\ Rows = SmaLong + 1
    /\ Len(features.rows) = 1

\* C6: train_model returns a model and a scaler together or (None, None), and
\* with fewer than 2 samples it returns (None, None) without entering the
\* split, the scaling or the fit.
C6_TrainAllOrNothing ==
    /\ (model = None) <=> (scaler = None)
    /\ model # None => (model = Fitted /\ scaler = Fitted)
    /\ (TrainRan /\ Len(features.rows) < 2) =>
          (model = None /\ scaler = None /\ trainSteps = <<>>)
    /\ (TrainRan /\ model # None) => trainSteps = TrainOrder

C6_Witness ==
    /\ TrainRan
    /\ Len(features.rows) = 1
    /\ model = None
    /\ trainSteps = <<>>

PredictedHigher ==
    future_price.k = "num" /\ future_price.n > last_close.n * future_price.d

\* C7: a printed forecast is green and "up" exactly when the predicted price
\* exceeds the last close, red and "down" otherwise, and for a numeric
\* prediction the percentage change is positive exactly when the call is up.
C7_ForecastDirection ==
    printed # <<>> =>
        /\ \A j \in 1..Len(printed) :
              printed[j].color = (IF PredictedHigher THEN "GREEN" ELSE "RED")
        /\ printed[2].direction = (IF PredictedHigher THEN "up" ELSE "down")
        /\ printed[1].value = future_price
        /\ future_price.k = "num" =>
              /\ change_percentage.k = "num"
              /\ (change_percentage.n > 0) <=> (printed[2].direction = "up")
              /\ (change_percentage.n <= 0) <=> (printed[2].direction = "down")
              /\ printed[2].value = FAbs(change_percentage)

C7_Witness ==
    /\ Len(printed) = 2
    /\ printed[2].direction = "up"
    /\ printed[2].color = "GREEN"
    /\ change_percentage.n > 0

InputsRead == start_date # <<>>

\* The exception came from reading the inputs, before any stage ran.
InputRaised == pc = "except" /\ failure = {"exception"}

RelativeForm(text) == Len(text) >= 2 /\ text[1] = "+" /\ AllDigits(Tail(text))

LastOrdinal == Ordinal(<<MaxYear, 12, 31>>)

ResolvedTo(ordinal) ==
    /\ ~InputRaised
    /\ Strptime(end_date).ok
    /\ Ordinal(Strptime(end_date).date) = ordinal
    /\ end_date = Strftime(Strptime(end_date).date)

\* C8 as stated: every valid start date S and every "+N" resolve to S plus N
\* days before the data is fetched.
C8_ResolvesAsStated ==
    (InputsRead /\ Strptime(start_date).ok /\ RelativeForm(end_input)) =>
        ResolvedTo(Ordinal(Strptime(start_date).date) + DigitsVal(Tail(end_input)))

\* C8: for a valid start date S and an end-date input "+N" with S plus N days
\* no later than 9999-12-31, the end date handed to the pipeline is the
\* calendar date S plus N days ("+5" from 2023-01-01 gives 2023-01-06); an
\* input without "+" is passed on unchanged.
C8_Resolves ==
    InputsRead =>
        /\ (/\ Strptime(start_date).ok
            /\ RelativeForm(end_input)
            /\ Ordinal(Strptime(start_date).date) + DigitsVal(Tail(end_input))
                  <= LastOrdinal) =>
              ResolvedTo(Ordinal(Strptime(start_date).date)
                            + DigitsVal(Tail(end_input)))
        /\ (start_date = Strftime(<<2023, 1, 1>>) /\ end_input = <<"+", "5">>) =>
              end_date = <<"2", "0", "2", "3", "-", "0", "1", "-", "0", "6">>
        /\ ~HasPlus(end_input) => (end_date = end_input /\ ~InputRaised)

C8_Witness ==
    /\ pc = "fetch"
    /\ start_date = <<"2", "0", "2", "3", "-", "1", "2", "-", "3", "0">>
    /\ end_input = <<"+", "3">>
    /\ end_date = <<"2", "0", "2", "4", "-", "0", "1", "-", "0", "2">>

RsiMade == stock_data # None /\ stock_data.RSI # <<>>

StrictlyRising(s) == \A i \in 2..Len(s) : s[i] > s[i - 1]

StrictlyFalling(s) == \A i \in 2..Len(s) : s[i] < s[i - 1]

\* C9: the RSI of every row after the first is 100 on a strictly rising
\* series and 0 on a strictly falling one.
C9_MonotoneRsi ==
    RsiMade =>
        /\ StrictlyRising(stock_data.Close) =>
              \A i \in 2..Rows : stock_data.RSI[i] = FromInt(100)
        /\ StrictlyFalling(stock_data.Close) =>
              \A i \in 2..Rows : stock_data.RSI[i] = FromInt(0)

C9_Witness ==
    /\ RsiMade
    /\ Rows > SmaLong
    /\ StrictlyRising(stock_data.Close)
    /\ stock_data.RSI[Rows] = FromInt(100)

\* C10 as stated: a zero average loss always makes the RSI NaN.
C10_ZeroLossIsNaNAsStated ==
    RsiMade =>
        LET avg_loss == AvgLoss(stock_data.Close, RsiWindow)
        IN  \A i \in 1..Rows : avg_loss[i].n = 0 => IsNaN(stock_data.RSI[i])

\* C10: with a zero average loss the RSI is NaN when the average gain is zero
\* too and 100 when it is positive; it is NaN in no other case; and no row
\* whose RSI is NaN is left in the feature table.
C10_ZeroLoss ==
    RsiMade =>
        /\ LET gain == AvgGain(stock_data.Close, RsiWindow)
               loss == AvgLoss(stock_data.Close, RsiWindow)
           IN  \A i \in 1..Rows :
                  /\ (loss[i].n = 0 /\ gain[i].n = 0) => IsNaN(stock_data.RSI[i])
                  /\ (loss[i].n = 0 /\ gain[i].n > 0) =>
                        stock_data.RSI[i] = FromInt(100)
                  /\ IsNaN(stock_data.RSI[i]) => (loss[i].n = 0 /\ gain[i].n = 0)
        /\ features # None =>
              \A j \in 1..Len(features.rows) :
                  /\ ~IsNaN(features.rows[j].RSI)
                  /\ ~IsNaN(stock_data.RSI[features.rows[j].row])

C10_Witness ==
    /\ FeaturesMade
    /\ Len(features.rows) = 1
    /\ Cardinality(RsiNaNRows) = 2

====
